---- MODULE Spec2Model ----
(***************************************************************************)
(* A model of rhasspyasr_pocketsphinx/train.py: train (the training        *)
(* pipeline), guess_pronunciations (the g2p fallback) and read_dict (the   *)
(* dictionary reader).                                                     *)
(*                                                                         *)
(* A Python str is a sequence of one-character strings, so that strip,     *)
(* split, startswith and the line formats are computed character by        *)
(* character.  A text file is the sequence of its lines.                   *)
(***************************************************************************)
EXTENDS Integers, Sequences, FiniteSets, Bags, TLC

VARIABLES
    \* ---- train: parameters and the module's global names
    language_model_bound, \* whether the global name language_model (line 62) resolves
    pronunciations,       \* parameter: word -> sequence of variants
    dictionary_word_transform, \* parameter: "none" or "upper"
    g2p_model,            \* parameter: "none" or "model"
    g2p_word_transform,   \* parameter: "identity" or "upper"
    missing_words_path,   \* parameter: "none" or "path"
    \* ---- train: the run
    pc,                   \* position in train
    error,                \* the exception that ended the run ("none" while running)
    failed_at,            \* pc at which the exception was raised
    exc_words,            \* MissingWordPronunciationsException.words
    count_file,           \* lines of the n-gram count file
    vocab_file,           \* lines of the estimator's vocabulary listing
    lm_file,              \* content of the scratch language model
    vocabulary,           \* set of words
    todo,                 \* vocabulary words the loop of line 109 has not visited
    missing_words,        \* set of words
    dict_file,            \* lines of the dictionary in progress
    wordlist_file,        \* bag of the lines of the g2p word list
    g2p_lines,            \* g2p output lines not yet consumed
    estimator_calls,      \* invocations of estimate-ngram
    g2p_calls,            \* invocations of phonetisaurus-apply
    scratch,              \* scratch files that exist
    handles,              \* file objects that are open
    \* ---- the file system outside the run
    dictionary_path,      \* lines of the file at dictionary_path
    language_model_path,  \* content of the file at language_model_path
    missing_words_file,   \* lines of the file at missing_words_path
    \* ---- read_dict
    word_dict,            \* the map being built
    rd_i,                 \* lines consumed so far (enumerate's i)
    rd_line,              \* the line last consumed
    rd_head,              \* the head token the line last consumed was built from
    rd_phonemes,          \* the phoneme tokens it was built from
    rd_kind,              \* the type of the line last consumed: "str" or "bytes"
    rd_warning            \* 1-based number of the line last warned about (0: none)

trainVars ==
    << language_model_bound, pronunciations, dictionary_word_transform,
       g2p_model, g2p_word_transform,
       missing_words_path, pc, error, failed_at, exc_words, count_file,
       vocab_file, lm_file, vocabulary, todo, missing_words, dict_file,
       wordlist_file, g2p_lines, estimator_calls, g2p_calls, scratch, handles,
       dictionary_path, language_model_path, missing_words_file >>

rdVars == << word_dict, rd_i, rd_line, rd_head, rd_phonemes, rd_kind, rd_warning >>

vars == << trainVars, rdVars >>

----------------------------------------------------------------------------
(* Bounds of the model *)

\* lines in the estimator's vocabulary listing
MaxVocabLines == 2
\* lines of g2p predictor output
MaxG2PLines == 2
\* lines handed to read_dict in one reading
MaxDictLines == 3

----------------------------------------------------------------------------
(* Python str operations *)

NL == "\n"
TAB == "\t"
SP == " "
\* U+00A0, which str.strip() removes and the pattern [ \t]+ does not match
NBSP == "nbsp"

\* the characters str.strip() and str.split() treat as whitespace
Whitespace == {SP, TAB, NL, NBSP}

\* the characters the pattern [ \t]+ of line 238 matches
SplitChars == {SP, TAB}

RECURSIVE lstrip(_)
lstrip(s) ==
    IF s = << >> THEN << >>
    ELSE IF Head(s) \in Whitespace THEN lstrip(Tail(s)) ELSE s

RECURSIVE rstrip(_)
rstrip(s) ==
    IF s = << >> THEN << >>
    ELSE IF s[Len(s)] \in Whitespace THEN rstrip(SubSeq(s, 1, Len(s) - 1)) ELSE s

\* str.strip()
strip(s) == rstrip(lstrip(s))

\* str.startswith(c) for a one-character prefix
startswith(s, c) == Len(s) > 0 /\ s[1] = c

\* re.split(r"[<seps>]+", s): the pieces between maximal runs of separators,
\* an empty piece where the string starts or ends with a separator
RECURSIVE split_runs(_, _, _, _)
split_runs(s, seps, cur, inRun) ==
    IF s = << >> THEN << cur >>
    ELSE IF Head(s) \in seps
         THEN IF inRun THEN split_runs(Tail(s), seps, cur, TRUE)
              ELSE << cur >> \o split_runs(Tail(s), seps, << >>, TRUE)
         ELSE split_runs(Tail(s), seps, Append(cur, Head(s)), FALSE)

\* re.split(r"[ \t]+", line), line 238
re_split(line) == split_runs(line, SplitChars, << >>, FALSE)

\* str.split(): split on runs of whitespace, no empty pieces, line 216
str_split(line) ==
    SelectSeq(split_runs(line, Whitespace, << >>, FALSE), LAMBDA t : t # << >>)

\* word.split("(")[0], line 240: the text before the first "("
RECURSIVE split_paren(_)
split_paren(word) ==
    IF word = << >> THEN << >>
    ELSE IF Head(word) = "(" THEN << >>
         ELSE << Head(word) >> \o split_paren(Tail(word))

\* " ".join(phonemes)
RECURSIVE join(_)
join(phonemes) ==
    IF phonemes = << >> THEN << >>
    ELSE IF Len(phonemes) = 1 THEN Head(phonemes)
         ELSE Head(phonemes) \o << SP >> \o join(Tail(phonemes))

\* print(a, b, file=f): one line "a b\n"
print2(a, b) == a \o << SP >> \o b \o << NL >>

\* str(n) for a one-digit n
str_int(n) ==
    << CASE n = 0 -> "0" [] n = 1 -> "1" [] n = 2 -> "2" [] n = 3 -> "3"
         [] n = 4 -> "4" [] n = 5 -> "5" [] n = 6 -> "6" [] n = 7 -> "7"
         [] n = 8 -> "8" [] OTHER -> "9" >>

upper_char(c) ==
    CASE c = "a" -> "A" [] c = "b" -> "B" [] OTHER -> c

\* str.upper
upper(s) == [i \in 1..Len(s) |-> upper_char(s[i])]

Range(s) == {s[i] : i \in 1..Len(s)}

\* all sequences over S of length 0..n
RECURSIVE SeqsUpTo(_, _)
SeqsUpTo(S, n) ==
    IF n = 0 THEN {<< >>}
    ELSE LET shorter == SeqsUpTo(S, n - 1)
         IN shorter \cup {Append(s, x) : s \in {t \in shorter : Len(t) = n - 1}, x \in S}

\* list(S) for a set S: its elements once each, in an unspecified order
Orderings(S) ==
    {s \in [1..Cardinality(S) -> S] : \A i, j \in 1..Cardinality(S) : s[i] = s[j] => i = j}

----------------------------------------------------------------------------
(* read_dict *)

\* the word -> variants map with no key
EmptyDict == [w \in {} |-> << >>]

\* lines 242-245: append pronounce under word
\* mutation: a later line for the same word replaces its variants
add_variant_replacing(d, word, pronounce) ==
    [k \in DOMAIN d \cup {word} |-> IF k = word THEN << pronounce >> ELSE d[k]]

add_variant(d, word, pronounce) ==
    IF word \in DOMAIN d
    THEN [d EXCEPT ![word] = Append(@, pronounce)]
    ELSE [k \in DOMAIN d \cup {word} |-> IF k = word THEN << pronounce >> ELSE d[k]]

\* mutation: the head token is kept whole as the key
base_word_keeping_suffix(head) == head

\* line 240
base_word(head) == split_paren(head)

\* mutation: the tokenizer takes a line of any type
re_split_raises_never(kind) == FALSE

\* line 238: re.split with a str pattern raises TypeError on a bytes line
re_split_raises(kind) == kind = "bytes"

\* lines 232-245: one iteration of the loop over dict_file, for a str line
read_dict_line(d, line) ==
    LET stripped == strip(line)
    IN IF stripped = << >> THEN d
       ELSE LET parts == re_split(stripped)
            IN add_variant(d, base_word(Head(parts)), Tail(parts))

----------------------------------------------------------------------------
(* Inputs of the model *)

a == << "a" >>
b == << "b" >>
P == << "P" >>
Q == << "Q" >>

\* the Pronunciation Maps a run of train is given
TrainPronunciations ==
    { EmptyDict,
      [w \in {a} |-> << << P >> >>],
      [w \in {a, b} |-> IF w = a THEN << << P >>, << P, Q >> >> ELSE << << Q >> >>] }

\* the lines estimate-ngram may write to the vocabulary listing: one word per
\* line, reserved entries, blank lines
VocabLines ==
    { << "<", "s", ">", NL >>, a \o << NL >>, b \o << NL >>, << NL >> }

VocabListings == SeqsUpTo(VocabLines, MaxVocabLines)

\* the lines phonetisaurus-apply may print (splitlines() has removed the "\n")
G2PLines ==
    { a \o << SP >> \o P \o << SP >> \o Q,
      upper(a) \o << TAB >> \o P,
      << >> }

G2POutputs == SeqsUpTo(G2PLines, MaxG2PLines)

\* rhasspynlu.get_intent_ngram_counts, lines 52-54: (n-gram, count) pairs
intent_counts == << << << a >>, 5 >>, << << a, b >>, 3 >> >>

\* the content of the destination files before the run
OldDictionary == << << "o", "l", "d", SP, "O", NL >> >>
OldLanguageModel == "LM_OLD"
OldMissingWords == << << "o", "l", "d", SP, "O", NL >> >>

----------------------------------------------------------------------------
(* train: helpers *)

params ==
    << language_model_bound, pronunciations, dictionary_word_transform,
       g2p_model, g2p_word_transform, missing_words_path >>

\* lines 46, 185, 189
transform(t, word) == IF t = "upper" THEN upper(word) ELSE word

\* lines 69-71: print(*ngram, end="") then print("\t", count)
count_line(ngram, count) ==
    join(ngram) \o << TAB >> \o << SP >> \o str_int(count) \o << NL >>

\* lines 95-98: the words of the vocabulary listing
\* mutation: reserved entries are kept
extract_vocabulary_keeping_reserved(listing) ==
    { strip(listing[i]) : i \in 1..Len(listing) }

extract_vocabulary(listing) ==
    { strip(listing[i]) : i \in { j \in 1..Len(listing) : ~startswith(strip(listing[j]), "<") } }

\* lines 110-111: pronunciations.get(word) is None or empty
is_missing(prons, word) == word \notin DOMAIN prons \/ prons[word] = << >>

\* mutation: the suffix of a variant is one too high
word_lines_suffix_off_by_one(word, word_phonemes) ==
    [i \in 1..Len(word_phonemes) |->
        LET phoneme_str == strip(join(word_phonemes[i]))
        IN IF i = 1
           THEN print2(word, phoneme_str)
           ELSE print2(word \o << "(" >> \o str_int(i + 1) \o << ")" >>, phoneme_str)]

\* lines 118-125: the dictionary lines of one word
word_lines(word, word_phonemes) ==
    [i \in 1..Len(word_phonemes) |->
        LET phoneme_str == strip(join(word_phonemes[i]))
        IN IF i = 1
           THEN print2(word, phoneme_str)
           ELSE print2(word \o << "(" >> \o str_int(i) \o << ")" >>, phoneme_str)]

\* line 135: list(missing_words)
\* mutation: only one of the missing words is reported
exception_words_first_only(missing) ==
    { << w >> : w \in missing }

exception_words(missing) == Orderings(missing)

\* lines 188-190: the word list handed to the predictor, one line per word
\* mutation: every vocabulary word is handed over
g2p_wordlist_all_words(words, t) ==
    LET ws == words \cup vocabulary
        lines == { transform(t, w) \o << NL >> : w \in ws }
    IN [l \in lines |-> Cardinality({ w \in ws : transform(t, w) \o << NL >> = l })]

g2p_wordlist(words, t) ==
    LET lines == { transform(t, w) \o << NL >> : w \in words }
    IN [l \in lines |-> Cardinality({ w \in words : transform(t, w) \o << NL >> = l })]

\* lines 213-217 and 148-150: the dictionary lines of one line of g2p output
guess_lines(line) ==
    LET stripped == strip(line)
    IN IF stripped = << >> THEN << >>
       ELSE LET parts == str_split(stripped)
            IN << print2(strip(Head(parts)), strip(join(Tail(parts)))) >>

\* guess_lines of each line the predictor may print, evaluated once
guess_lines_of == [line \in G2PLines |-> guess_lines(line)]

\* an exception leaves train: the with blocks delete their temporary files and
\* close them; the count file (line 62) is closed and stays; the report file
\* (line 130) has no with block
Raise(err) ==
    /\ pc' = "FAILED"
    /\ error' = err
    /\ failed_at' = pc
    /\ scratch' = scratch \cap {"count_file"}
    /\ handles' = handles \cap {"missing_file"}

\* what a failed shutil.copy leaves at the destination: the old content when
\* the destination could not be opened, else a part of the new content
failed_copy_lines(old, new) ==
    {old} \cup { SubSeq(new, 1, n) : n \in 0..(Len(new) - 1) }

----------------------------------------------------------------------------
(* train *)

\* train.py binds no name language_model: line 62 finds it only if the
\* importing program has put it in the module's namespace, and raises
\* NameError otherwise.  Both cases are runs of the model.
TrainInit ==
    /\ language_model_bound \in BOOLEAN
    /\ pronunciations \in TrainPronunciations
    /\ g2p_model \in {"none", "model"}
    /\ dictionary_word_transform \in {"none", "upper"}
    /\ g2p_word_transform \in {"identity", "upper"}
    /\ missing_words_path \in {"none", "path"}
    /\ pc = "count"
    /\ error = "none"
    /\ failed_at = "none"
    /\ exc_words = << >>
    /\ count_file = << >>
    /\ vocab_file = << >>
    /\ lm_file = ""
    /\ vocabulary = {}
    /\ todo = {}
    /\ missing_words = {}
    /\ dict_file = << >>
    /\ wordlist_file = EmptyBag
    /\ g2p_lines = << >>
    /\ estimator_calls = 0
    /\ g2p_calls = 0
    /\ scratch = {}
    /\ handles = {}
    /\ dictionary_path = OldDictionary
    /\ language_model_path = OldLanguageModel
    /\ missing_words_file = OldMissingWords

ReadDictIdle ==
    /\ word_dict = EmptyDict
    /\ rd_i = 0
    /\ rd_line = << >>
    /\ rd_head = << >>
    /\ rd_phonemes = << >>
    /\ rd_kind = "str"
    /\ rd_warning = 0

Init == TrainInit /\ ReadDictIdle

\* lines 59-73: COUNTING
Counting ==
    /\ pc = "count"
    /\ IF ~language_model_bound
       THEN \* line 62: NameError, inside the with block of lm_file
            /\ Raise("NameError")
            /\ UNCHANGED count_file
       ELSE /\ count_file' =
                [i \in 1..Len(intent_counts) |->
                    LET ngram == intent_counts[i][1]
                    IN count_line(
                         \* lines 66-67
                         [j \in 1..Len(ngram) |->
                             transform(dictionary_word_transform, ngram[j])],
                         intent_counts[i][2])]
            /\ scratch' = scratch \cup {"lm_file", "count_file"}
            /\ handles' = handles \cup {"lm_file", "count_file"}
            /\ pc' = "estimate"
            /\ UNCHANGED << error, failed_at >>
    /\ UNCHANGED << params, exc_words, vocab_file, lm_file, vocabulary, todo,
                    missing_words, dict_file, wordlist_file, g2p_lines,
                    estimator_calls, g2p_calls, dictionary_path,
                    language_model_path, missing_words_file, rdVars >>

\* mutation: a failed call of estimate-ngram is made once more
Estimating_retry ==
    /\ pc = "estimate"
    /\ estimator_calls' = estimator_calls + 1
    /\ \/ /\ estimator_calls = 0
          /\ UNCHANGED << pc, error, failed_at, scratch, handles, vocab_file, lm_file >>
       \/ /\ Raise("CalledProcessError")
          /\ UNCHANGED << vocab_file, lm_file >>
       \/ /\ \E listing \in VocabListings : vocab_file' = listing
          /\ lm_file' = "LM_NEW"
          /\ scratch' = scratch \cup {"vocab_file"}
          /\ handles' = handles \cup {"vocab_file"}
          /\ pc' = "extract"
          /\ UNCHANGED << error, failed_at >>
    /\ UNCHANGED << params, exc_words, count_file, vocabulary, todo,
                    missing_words, dict_file, wordlist_file, g2p_lines,
                    g2p_calls, dictionary_path, language_model_path,
                    missing_words_file, rdVars >>

\* lines 74-91: ESTIMATING, the call of estimate-ngram
Estimating ==
    /\ pc = "estimate"
    /\ estimator_calls' = estimator_calls + 1
    /\ \/ \* non-zero exit: subprocess.check_call raises
          /\ Raise("CalledProcessError")
          /\ UNCHANGED << vocab_file, lm_file >>
       \/ \* exit 0: the language model and the vocabulary listing are written
          /\ \E listing \in VocabListings : vocab_file' = listing
          /\ lm_file' = "LM_NEW"
          /\ scratch' = scratch \cup {"vocab_file"}
          /\ handles' = handles \cup {"vocab_file"}
          /\ pc' = "extract"
          /\ UNCHANGED << error, failed_at >>
    /\ UNCHANGED << params, exc_words, count_file, vocabulary, todo,
                    missing_words, dict_file, wordlist_file, g2p_lines,
                    g2p_calls, dictionary_path, language_model_path,
                    missing_words_file, rdVars >>

\* mutation: the assert of line 100 is missing
ExtractVocabulary_no_assert ==
    /\ pc = "extract"
    /\ vocabulary' = extract_vocabulary(vocab_file)
    /\ todo' = vocabulary'
    /\ scratch' = (scratch \ {"vocab_file"}) \cup {"dict_file"}
    /\ handles' = (handles \ {"vocab_file", "count_file"}) \cup {"dict_file"}
    /\ pc' = "resolve"
    /\ UNCHANGED << params, error, failed_at, exc_words, count_file,
                    vocab_file, lm_file, missing_words, dict_file,
                    wordlist_file, g2p_lines, estimator_calls, g2p_calls,
                    dictionary_path, language_model_path, missing_words_file,
                    rdVars >>

\* lines 93-103: ESTIMATING, the vocabulary and its assert
ExtractVocabulary ==
    /\ pc = "extract"
    /\ vocabulary' = extract_vocabulary(vocab_file)
    /\ IF vocabulary' = {}
       THEN \* line 100
            /\ Raise("AssertionError")
            /\ UNCHANGED todo
       ELSE /\ todo' = vocabulary'
            /\ scratch' = (scratch \ {"vocab_file"}) \cup {"dict_file"}
            /\ handles' = (handles \ {"vocab_file", "count_file"}) \cup {"dict_file"}
            /\ pc' = "resolve"
            /\ UNCHANGED << error, failed_at >>
    /\ UNCHANGED << params, exc_words, count_file, vocab_file, lm_file,
                    missing_words, dict_file, wordlist_file, g2p_lines,
                    estimator_calls, g2p_calls, dictionary_path,
                    language_model_path, missing_words_file, rdVars >>

\* lines 109-125: RESOLVING, one iteration of the loop over the vocabulary
ResolveWord ==
    /\ pc = "resolve"
    /\ \E word \in todo :
        /\ todo' = todo \ {word}
        /\ IF is_missing(pronunciations, word)
           THEN /\ missing_words' = missing_words \cup {word}
                /\ UNCHANGED dict_file
           ELSE /\ dict_file' = dict_file \o word_lines(word, pronunciations[word])
                /\ UNCHANGED missing_words
    /\ UNCHANGED << params, pc, error, failed_at, exc_words, count_file,
                    vocab_file, lm_file, vocabulary, wordlist_file, g2p_lines,
                    estimator_calls, g2p_calls, scratch, handles,
                    dictionary_path, language_model_path, missing_words_file,
                    rdVars >>

\* lines 128-130: the report file is opened for writing
OpenMissingFile ==
    /\ pc = "resolve"
    /\ todo = {}
    /\ IF missing_words_path # "none"
       THEN /\ missing_words_file' = << >>
            /\ handles' = handles \cup {"missing_file"}
       ELSE UNCHANGED << missing_words_file, handles >>
    /\ pc' = "check_missing"
    /\ UNCHANGED << params, error, failed_at, exc_words, count_file,
                    vocab_file, lm_file, vocabulary, todo, missing_words,
                    dict_file, wordlist_file, g2p_lines, estimator_calls,
                    g2p_calls, scratch, dictionary_path, language_model_path,
                    rdVars >>

\* lines 132-135 and 156-158: the decision after resolving
CheckMissing ==
    /\ pc = "check_missing"
    /\ IF missing_words = {}
       THEN \* lines 156-158: the report file is closed
            /\ handles' = handles \ {"missing_file"}
            /\ pc' = "copy_dict"
            /\ UNCHANGED << error, failed_at, exc_words, scratch >>
       ELSE IF g2p_model = "none"
            THEN \* line 135
                 /\ Raise("MissingWordPronunciationsException")
                 /\ exc_words' \in exception_words(missing_words)
            ELSE /\ pc' = "g2p"
                 /\ UNCHANGED << error, failed_at, exc_words, scratch, handles >>
    /\ UNCHANGED << params, count_file, vocab_file, lm_file, vocabulary, todo,
                    missing_words, dict_file, wordlist_file, g2p_lines,
                    estimator_calls, g2p_calls, dictionary_path,
                    language_model_path, missing_words_file, rdVars >>

\* lines 139-144 and 187-209: FALLBACK, the call of phonetisaurus-apply
GuessPronunciations ==
    /\ pc = "g2p"
    /\ g2p_calls' = g2p_calls + 1
    /\ wordlist_file' = g2p_wordlist(missing_words, g2p_word_transform)
    /\ \/ \* non-zero exit: subprocess.check_output raises
          /\ Raise("CalledProcessError")
          /\ UNCHANGED g2p_lines
       \/ \* exit 0
          /\ \E output \in G2POutputs : g2p_lines' = output
          /\ scratch' = scratch \cup {"wordlist_file"}
          /\ handles' = handles \cup {"wordlist_file"}
          /\ pc' = "guess"
          /\ UNCHANGED << error, failed_at >>
    /\ UNCHANGED << params, exc_words, count_file, vocab_file, lm_file,
                    vocabulary, todo, missing_words, dict_file,
                    estimator_calls, dictionary_path, language_model_path,
                    missing_words_file, rdVars >>

\* mutation: the report gets the predictor's line as it was printed
WriteGuess_raw_report ==
    /\ pc = "guess"
    /\ g2p_lines # << >>
    /\ g2p_lines' = Tail(g2p_lines)
    /\ dict_file' = dict_file \o guess_lines_of[Head(g2p_lines)]
    /\ IF "missing_file" \in handles
       THEN missing_words_file' = Append(missing_words_file, Head(g2p_lines) \o << NL >>)
       ELSE UNCHANGED missing_words_file
    /\ UNCHANGED << params, pc, error, failed_at, exc_words, count_file,
                    vocab_file, lm_file, vocabulary, todo, missing_words,
                    wordlist_file, estimator_calls, g2p_calls, scratch,
                    handles, dictionary_path, language_model_path, rdVars >>

\* lines 148-153 and 213-217: FALLBACK, one line of g2p output
WriteGuess ==
    /\ pc = "guess"
    /\ g2p_lines # << >>
    /\ g2p_lines' = Tail(g2p_lines)
    /\ dict_file' = dict_file \o guess_lines_of[Head(g2p_lines)]
    /\ IF "missing_file" \in handles
       THEN missing_words_file' = missing_words_file \o guess_lines_of[Head(g2p_lines)]
       ELSE UNCHANGED missing_words_file
    /\ UNCHANGED << params, pc, error, failed_at, exc_words, count_file,
                    vocab_file, lm_file, vocabulary, todo, missing_words,
                    wordlist_file, estimator_calls, g2p_calls, scratch,
                    handles, dictionary_path, language_model_path, rdVars >>

\* lines 156-158: the g2p output is exhausted, the report file is closed
GuessesDone ==
    /\ pc = "guess"
    /\ g2p_lines = << >>
    /\ scratch' = scratch \ {"wordlist_file"}
    /\ handles' = handles \ {"wordlist_file", "missing_file"}
    /\ pc' = "copy_dict"
    /\ UNCHANGED << params, error, failed_at, exc_words, count_file,
                    vocab_file, lm_file, vocabulary, todo, missing_words,
                    dict_file, wordlist_file, g2p_lines, estimator_calls,
                    g2p_calls, dictionary_path, language_model_path,
                    missing_words_file, rdVars >>

\* lines 162-165: WRITING, the dictionary is copied to its destination
CopyDictionary ==
    /\ pc = "copy_dict"
    /\ \/ \* shutil.copy raises
          /\ dictionary_path' \in failed_copy_lines(dictionary_path, dict_file)
          /\ Raise("OSError")
       \/ /\ dictionary_path' = dict_file
          /\ scratch' = scratch \ {"dict_file"}
          /\ handles' = handles \ {"dict_file"}
          /\ pc' = "copy_lm"
          /\ UNCHANGED << error, failed_at >>
    /\ UNCHANGED << params, exc_words, count_file, vocab_file, lm_file,
                    vocabulary, todo, missing_words, dict_file, wordlist_file,
                    g2p_lines, estimator_calls, g2p_calls,
                    language_model_path, missing_words_file, rdVars >>

\* mutation: the run ends without the copy of line 171
CopyLanguageModel_not_copied ==
    /\ pc = "copy_lm"
    /\ scratch' = scratch \ {"lm_file"}
    /\ handles' = handles \ {"lm_file"}
    /\ pc' = "DONE"
    /\ UNCHANGED << params, error, failed_at, exc_words, count_file,
                    vocab_file, lm_file, vocabulary, todo, missing_words,
                    dict_file, wordlist_file, g2p_lines, estimator_calls,
                    g2p_calls, dictionary_path, language_model_path,
                    missing_words_file, rdVars >>

\* lines 169-172: WRITING, the language model is copied to its destination
CopyLanguageModel ==
    /\ pc = "copy_lm"
    /\ \/ \* shutil.copy raises
          /\ language_model_path' \in {language_model_path, "LM_PARTIAL"}
          /\ Raise("OSError")
       \/ /\ language_model_path' = lm_file
          /\ scratch' = scratch \ {"lm_file"}
          /\ handles' = handles \ {"lm_file"}
          /\ pc' = "DONE"
          /\ UNCHANGED << error, failed_at >>
    /\ UNCHANGED << params, exc_words, count_file, vocab_file, lm_file,
                    vocabulary, todo, missing_words, dict_file, wordlist_file,
                    g2p_lines, estimator_calls, g2p_calls, dictionary_path,
                    missing_words_file, rdVars >>

Next ==
    \/ Counting
    \/ Estimating
    \/ ExtractVocabulary
    \/ ResolveWord
    \/ OpenMissingFile
    \/ CheckMissing
    \/ GuessPronunciations
    \/ WriteGuess
    \/ GuessesDone
    \/ CopyDictionary
    \/ CopyLanguageModel

Spec == Init /\ [][Next]_vars

\* every call train makes is blocking and the run is single-threaded: a run
\* that can take a step takes it
FairSpec == Spec /\ WF_vars(Next)

----------------------------------------------------------------------------
(* read_dict, fed line by line *)

\* head tokens of dictionary lines: words, words with a variant suffix, a
\* word in parentheses, and none (a blank line)
DictHeads ==
    { a, b,
      a \o << "(", "2", ")" >>,
      a \o << "(", "3", ")" >>,
      b \o << "(", "2", ")" >>,
      << "(" >> \o a \o << ")" >>,
      << >> }

DictPhonemes == { << >>, << P >>, << P, Q >> }

\* the text of a line: its head token, then each phoneme after a separator
RECURSIVE render_phonemes(_, _)
render_phonemes(phonemes, sep) ==
    IF phonemes = << >> THEN << >>
    ELSE sep \o Head(phonemes) \o render_phonemes(Tail(phonemes), sep)

render_line(lead, head, phonemes, sep, trail) ==
    lead \o head \o (IF head = << >> THEN << >> ELSE render_phonemes(phonemes, sep)) \o trail

\* lines 231-247: read_dict consumes one more line of dict_file
ReadDictLine ==
    /\ rd_i < MaxDictLines
    /\ \E head \in DictHeads, phonemes \in DictPhonemes,
          sep \in { << SP >>, << TAB, SP >> },
          pad \in { << << >>, << NL >> >>, << << SP >>, << SP, NL >> >> } :
        LET line == render_line(pad[1], head, phonemes, sep, pad[2])
        IN /\ rd_line' = line
           /\ rd_head' = head
           /\ rd_phonemes' = IF head = << >> THEN << >> ELSE phonemes
           /\ word_dict' = read_dict_line(word_dict, line)
    /\ rd_i' = rd_i + 1
    /\ rd_kind' = "str"
    /\ UNCHANGED << trainVars, rd_warning >>

ReadDictNext == ReadDictLine

\* no run of train is under way
ReadDictInit ==
    /\ TrainInit
    /\ ~language_model_bound
    /\ pronunciations = EmptyDict
    /\ g2p_model = "none"
    /\ dictionary_word_transform = "none"
    /\ g2p_word_transform = "identity"
    /\ missing_words_path = "none"
    /\ ReadDictIdle

\* read_dict(dict_file) on a fresh map
ReadDictSpec == ReadDictInit /\ [][ReadDictNext]_vars

\* lines 231-247: read_dict consumes one more line, a bytes object (a line of
\* a file opened in binary mode): strip() and the blank test work on it, the
\* tokenizer of line 238 raises inside the try, line 247 logs the warning
\* with the line's number and the loop goes on
ReadDictBytesLine ==
    /\ rd_i < MaxDictLines
    /\ \E head \in DictHeads, phonemes \in DictPhonemes,
          pad \in { << << >>, << NL >> >>, << << SP >>, << SP, NL >> >> } :
        LET line == render_line(pad[1], head, phonemes, << SP >>, pad[2])
        IN /\ rd_line' = line
           /\ rd_head' = head
           /\ rd_phonemes' = IF head = << >> THEN << >> ELSE phonemes
           /\ IF strip(line) = << >>
              THEN \* line 234
                   UNCHANGED << word_dict, rd_warning >>
              ELSE IF re_split_raises("bytes")
                   THEN /\ word_dict' = word_dict
                        /\ rd_warning' = rd_i + 1
                   ELSE /\ word_dict' = read_dict_line(word_dict, line)
                        /\ UNCHANGED rd_warning
    /\ rd_i' = rd_i + 1
    /\ rd_kind' = "bytes"
    /\ UNCHANGED trainVars

ReadDictMixedNext == ReadDictLine \/ ReadDictBytesLine

\* read_dict on an iterable of str and bytes lines
ReadDictMixedSpec == ReadDictInit /\ [][ReadDictMixedNext]_vars

----------------------------------------------------------------------------
(* The resolver's output read back by read_dict *)

\* words a Pronunciation Map may hold: tokens with no whitespace and no "("
\* after their first character
RoundTripWords == { a, b, << "(" >> \o a }

RoundTripVariants == { << << P >> >>, << << P, Q >> >>, << << P >>, << Q >> >>,
                       << << Q >>, << P >>, << P, Q >> >> }

\* maps that satisfy the invariant of the data model: no key without a
\* variant, no variant without a phoneme
RoundTripMaps ==
    UNION { [ws -> RoundTripVariants] : ws \in SUBSET RoundTripWords }

\* train has reached RESOLVING with the map's key set as its vocabulary
RoundTripInit ==
    /\ language_model_bound = TRUE
    /\ pronunciations \in RoundTripMaps
    /\ g2p_model = "none"
    /\ dictionary_word_transform = "none"
    /\ g2p_word_transform = "identity"
    /\ missing_words_path = "none"
    /\ pc = "resolve"
    /\ error = "none"
    /\ failed_at = "none"
    /\ exc_words = << >>
    /\ count_file = << >>
    /\ vocab_file = << >>
    /\ lm_file = "LM_NEW"
    /\ vocabulary = DOMAIN pronunciations
    /\ todo = vocabulary
    /\ missing_words = {}
    /\ dict_file = << >>
    /\ wordlist_file = EmptyBag
    /\ g2p_lines = << >>
    /\ estimator_calls = 1
    /\ g2p_calls = 0
    /\ scratch = {"lm_file", "count_file", "dict_file"}
    /\ handles = {"lm_file", "dict_file"}
    /\ dictionary_path = OldDictionary
    /\ language_model_path = OldLanguageModel
    /\ missing_words_file = OldMissingWords
    /\ ReadDictIdle

\* read_dict consumes the next line the resolver wrote
ReadBackLine ==
    /\ pc = "resolve"
    /\ todo = {}
    /\ rd_i < Len(dict_file)
    /\ rd_line' = dict_file[rd_i + 1]
    /\ word_dict' = read_dict_line(word_dict, dict_file[rd_i + 1])
    /\ rd_i' = rd_i + 1
    /\ UNCHANGED << trainVars, rd_head, rd_phonemes, rd_kind, rd_warning >>

RoundTripNext == ResolveWord \/ ReadBackLine

RoundTripSpec == RoundTripInit /\ [][RoundTripNext]_vars

----------------------------------------------------------------------------
(* Properties of train *)

\* the vocabulary words with no entry in the Pronunciation Map
Unresolved == { w \in vocabulary : w \notin DOMAIN pronunciations }

\* the vocabulary has been extracted from the listing (lines 93-98 have run)
Extracted ==
    /\ pc \notin {"count", "estimate", "extract"}
    /\ ~(pc = "FAILED" /\ failed_at \in {"count", "estimate"})

\* a line of a text file without its line terminator
Chomp(line) ==
    IF line # << >> /\ line[Len(line)] = NL THEN SubSeq(line, 1, Len(line) - 1) ELSE line

\* word is the head token of a dictionary line
IsHeadOf(word, line) ==
    /\ Len(line) > Len(word)
    /\ SubSeq(line, 1, Len(word)) = word
    /\ line[Len(word) + 1] = SP

\* the stage of section 4.5 a position of train belongs to
Stage(p) ==
    CASE p = "count" -> "COUNTING"
      [] p \in {"estimate", "extract"} -> "ESTIMATING"
      [] p \in {"resolve", "check_missing"} -> "RESOLVING"
      [] p \in {"g2p", "guess"} -> "FALLBACK"
      [] p \in {"copy_dict", "copy_lm"} -> "WRITING"
      [] OTHER -> p

\* the stages that may follow a stage
StageSuccessors(st) ==
    CASE st = "COUNTING" -> {"ESTIMATING", "FAILED"}
      [] st = "ESTIMATING" -> {"RESOLVING", "FAILED"}
      [] st = "RESOLVING" -> {"FALLBACK", "WRITING", "FAILED"}
      [] st = "FALLBACK" -> {"WRITING", "FAILED"}
      [] st = "WRITING" -> {"DONE", "FAILED"}
      [] OTHER -> {}

\* C1: a run of train that ends in failure leaves the files at
\* dictionary_path and language_model_path with the content they had before
\* the run.
C1_FailedRunLeavesDestinations ==
    pc = "FAILED" =>
        /\ dictionary_path = OldDictionary
        /\ language_model_path = OldLanguageModel

\* C2: with an unresolved vocabulary word and no g2p model, train fails with
\* MissingWordPronunciationsException; its words are the unresolved words,
\* each once, and neither destination file is written.
C2_MissingWordsException ==
    /\ error = "MissingWordPronunciationsException" =>
        /\ Unresolved # {}
        /\ g2p_model = "none"
        /\ Range(exc_words) = Unresolved
        /\ Len(exc_words) = Cardinality(Unresolved)
        /\ dictionary_path = OldDictionary
        /\ language_model_path = OldLanguageModel
    /\ (pc \in {"DONE", "FAILED"} /\ Unresolved # {} /\ g2p_model = "none") =>
        /\ pc = "FAILED"
        /\ error = "MissingWordPronunciationsException"

C2_Witness ==
    /\ error = "MissingWordPronunciationsException"
    /\ Range(exc_words) = {a, b}

\* C3: when a run with a g2p model reaches DONE, every word of the
\* Missing-Word Set is the head word of a line of the published dictionary
\* (stated here for the words that are not the empty string).
C3_MissingWordsInDictionary ==
    (pc = "DONE" /\ g2p_model # "none") =>
        \A w \in missing_words \ {<< >>} :
            \E i \in 1..Len(dictionary_path) : IsHeadOf(w, dictionary_path[i])

\* C4: the g2p predictor is invoked exactly when the Missing-Word Set is
\* non-empty and a g2p model is configured; with no missing word the run
\* goes from RESOLVING to WRITING without it; the word list it is handed
\* has one line per missing word, the transformed word, and no other line.
C4_G2PInvocation ==
    /\ [](g2p_calls > 0 =>
            Unresolved # {} /\ g2p_model # "none" /\ missing_words = Unresolved)
    /\ []((/\ Unresolved # {}
           /\ g2p_model # "none"
           /\ \/ pc \in {"guess", "copy_dict", "copy_lm", "DONE"}
              \/ pc = "FAILED" /\ failed_at \in {"g2p", "copy_dict", "copy_lm"})
          => g2p_calls = 1)
    /\ [](pc = "guess" =>
            /\ BagCardinality(wordlist_file) = Cardinality(Unresolved)
            /\ \A w \in Unresolved :
                LET line == (IF g2p_word_transform = "upper" THEN upper(w) ELSE w)
                                \o << NL >>
                IN /\ BagIn(line, wordlist_file)
                   /\ CopiesIn(line, wordlist_file) =
                        Cardinality({ v \in Unresolved :
                            (IF g2p_word_transform = "upper" THEN upper(v) ELSE v)
                                \o << NL >> = line }))
    /\ [][(pc = "check_missing" /\ Unresolved = {}) =>
            (pc' = "copy_dict" /\ g2p_calls' = 0)]_vars

C4_Witness ==
    /\ pc = "guess"
    /\ g2p_word_transform = "upper"
    /\ missing_words = {b}
    /\ a \in vocabulary

\* a run in which the estimator exited 0 with a non-empty vocabulary and
\* every vocabulary word is resolved, from the map or by a predictor that
\* exited 0
GoodRun ==
    /\ Extracted
    /\ vocabulary # {}
    /\ \/ Unresolved = {}
       \/ g2p_calls = 1 /\ failed_at # "g2p"

Published ==
    /\ dictionary_path = dict_file
    /\ language_model_path = lm_file
    /\ lm_file = "LM_NEW"

\* a bound on the steps a run has left: it falls with every step, so a run
\* that keeps taking steps ends
StepsLeft ==
    LET rank == CASE pc = "count" -> 9 [] pc = "estimate" -> 8
                  [] pc = "extract" -> 7 [] pc = "resolve" -> 6
                  [] pc = "check_missing" -> 5 [] pc = "g2p" -> 4
                  [] pc = "guess" -> 3 [] pc = "copy_dict" -> 2
                  [] pc = "copy_lm" -> 1 [] OTHER -> 0
    IN rank * (MaxVocabLines + MaxG2PLines + 1) + Cardinality(todo) + Len(g2p_lines)

C6_VocabularyExcludesReserved ==
    Extracted =>
        /\ \A w \in vocabulary : ~(Len(w) > 0 /\ w[1] = "<")
        /\ \A i \in 1..Len(vocab_file) :
            LET text == Chomp(vocab_file[i])
            IN (Len(text) > 0 /\ text[1] = "<") \/ text \in vocabulary

C6_Witness ==
    /\ pc = "resolve"
    /\ vocabulary = {a}
    /\ \E i \in 1..Len(vocab_file) : Chomp(vocab_file[i]) = << "<", "s", ">" >>

\* the vocabulary listing holds no line but reserved "<" entries
OnlyReserved ==
    \A i \in 1..Len(vocab_file) :
        LET text == Chomp(vocab_file[i]) IN Len(text) > 0 /\ text[1] = "<"

\* the vocabulary listing holds no line but reserved "<" entries and blank
\* lines
OnlyReservedOrBlank ==
    \A i \in 1..Len(vocab_file) :
        LET text == Chomp(vocab_file[i]) IN text = << >> \/ text[1] = "<"

\* the run failed on the assert of line 100 and did nothing after it
FailedOnEmptyVocabulary ==
    /\ pc = "FAILED"
    /\ error = "AssertionError"
    /\ failed_at = "extract"
    /\ todo = {}
    /\ missing_words = {}
    /\ dict_file = << >>
    /\ g2p_calls = 0
    /\ dictionary_path = OldDictionary
    /\ language_model_path = OldLanguageModel

\* C7 as stated: a listing that is empty or holds only reserved entries and
\* blank lines makes train fail on the empty vocabulary, before RESOLVING.
C7_NoUsableWordFails ==
    (Extracted /\ OnlyReservedOrBlank) => FailedOnEmptyVocabulary

\* C7, amended: a listing that is empty or holds only reserved entries makes
\* train fail on the empty vocabulary, before RESOLVING, with no g2p
\* invocation and no destination file written.
C7_EmptyVocabularyFails ==
    (Extracted /\ OnlyReserved) => FailedOnEmptyVocabulary

C7_Witness ==
    /\ FailedOnEmptyVocabulary
    /\ Len(vocab_file) = 2
    /\ OnlyReserved

----------------------------------------------------------------------------
(* Properties of read_dict *)

\* C8: the resolver's lines for a Pronunciation Map, read back by read_dict
\* into a fresh map, give the map again: same keys, same variants in order.
C8_RoundTrip ==
    (pc = "resolve" /\ todo = {} /\ rd_i = Len(dict_file)) =>
        word_dict = pronunciations

\* C9: a line whose head token is word(k) is stored under word, after the
\* variants word already has, whatever k; no key word(k) is created.
C9_VariantSuffixKey ==
    [][\A w \in {a, b} : \A k \in {"2", "3"} :
        rd_head' = w \o << "(", k, ")" >> =>
            /\ DOMAIN word_dict' = DOMAIN word_dict \cup {w}
            /\ rd_head' \notin DOMAIN word_dict'
            /\ word_dict'[w] =
                (IF w \in DOMAIN word_dict THEN word_dict[w] ELSE << >>)
                    \o << rd_phonemes' >>
            /\ \A v \in DOMAIN word_dict : v # w => word_dict'[v] = word_dict[v]]_vars

C9_Witness ==
    /\ rd_head = a \o << "(", "3", ")" >>
    /\ rd_phonemes = << P, Q >>
    /\ a \in DOMAIN word_dict
    /\ word_dict[a] = << << P >>, << P, Q >> >>

\* C10: read_dict never maps a key to no variant, and never stores a variant
\* with no phoneme.
C10_NoEmptyVariant ==
    \A w \in DOMAIN word_dict :
        /\ word_dict[w] # << >>
        /\ \A i \in 1..Len(word_dict[w]) : word_dict[w][i] # << >>

----------------------------------------------------------------------------
(* read_dict given an existing map *)

\* maps handed to read_dict as word_dict: none yet, one base dictionary read,
\* two read
SuppliedDicts ==
    { EmptyDict,
      [w \in {a} |-> << << P >> >>],
      [w \in {a, b} |-> IF w = a THEN << << P >>, << Q >> >> ELSE << << Q >> >>] }

\* lines 228-229: word_dict is the caller's map
ReadDictMergeInit ==
    /\ TrainInit
    /\ ~language_model_bound
    /\ pronunciations = EmptyDict
    /\ g2p_model = "none"
    /\ dictionary_word_transform = "none"
    /\ g2p_word_transform = "identity"
    /\ missing_words_path = "none"
    /\ word_dict \in SuppliedDicts
    /\ rd_i = 0
    /\ rd_line = << >>
    /\ rd_head = << >>
    /\ rd_phonemes = << >>
    /\ rd_kind = "str"
    /\ rd_warning = 0

\* read_dict(dict_file, word_dict)
ReadDictMergeSpec == ReadDictMergeInit /\ [][ReadDictNext]_vars

\* C11: read_dict only appends to the map it is given: every key stays, the
\* variants a key had are a prefix of the variants it has after a line, and a
\* key the line does not name is unchanged.
C11_MergeAppends ==
    [][\A w \in DOMAIN word_dict :
        /\ w \in DOMAIN word_dict'
        /\ Len(word_dict'[w]) >= Len(word_dict[w])
        /\ SubSeq(word_dict'[w], 1, Len(word_dict[w])) = word_dict[w]
        /\ (Len(rd_head') < Len(w) \/ SubSeq(rd_head', 1, Len(w)) # w)
              => word_dict'[w] = word_dict[w]]_vars

C11_Witness ==
    /\ rd_i = 1
    /\ b \in DOMAIN word_dict
    /\ a \in DOMAIN word_dict
    /\ word_dict[a] = << << P >>, << Q >>, << P, Q >> >>

----------------------------------------------------------------------------
(* Properties of train, continued *)

\* the number of dictionary lines the resolver writes for the words of S
RECURSIVE ResolverLineCount(_)
ResolverLineCount(S) ==
    IF S = {} THEN 0
    ELSE LET w == CHOOSE x \in S : TRUE
         IN Len(pronunciations[w]) + ResolverLineCount(S \ {w})

\* the FALLBACK stage has run to its end
FallbackCompleted ==
    /\ g2p_calls = 1
    /\ \/ pc \in {"copy_dict", "copy_lm", "DONE"}
       \/ pc = "FAILED" /\ failed_at \in {"copy_dict", "copy_lm"}

\* the pair a line of predictor output yields, as a dictionary line
YieldedLines(line) ==
    LET tokens == str_split(line)
    IN IF tokens = << >> THEN << >>
       ELSE << Head(tokens) \o << SP >> \o join(Tail(tokens)) \o << NL >> >>

C13_NoScratchLeft ==
    pc \in {"DONE", "FAILED"} => (scratch = {} /\ handles = {})

\* C15: a line whose head token begins with "(" is not keyed under the empty
\* string.
C15_LeadingParenKey ==
    (rd_head # << >> /\ rd_head[1] = "(") => << >> \notin DOMAIN word_dict

\* C16: after FALLBACK, every pair the g2p fallback yielded is a variant of
\* its word in the run's Pronunciation Map.
C16_GuessesInMap ==
    FallbackCompleted =>
        \A i \in (ResolverLineCount(vocabulary \ Unresolved) + 1)..Len(dict_file) :
            LET tokens == str_split(dict_file[i])
            IN /\ Head(tokens) \in DOMAIN pronunciations
               /\ \E j \in 1..Len(pronunciations[Head(tokens)]) :
                    pronunciations[Head(tokens)][j] = Tail(tokens)

\* C19: a run that fails in RESOLVING or FALLBACK leaves the file at
\* missing_words_path as it was before the run.
C19_FailedRunLeavesReport ==
    (pc = "FAILED" /\ failed_at \in {"check_missing", "g2p"}) =>
        missing_words_file = OldMissingWords


\* the number of characters of the phonemes of one variant, each with one
\* separator before it
RECURSIVE SeparatedLength(_)
SeparatedLength(phonemes) ==
    IF phonemes = << >> THEN 0
    ELSE 1 + Len(Head(phonemes)) + SeparatedLength(Tail(phonemes))

\* the head token of the i-th variant of a word: the word, then "(i)" from the
\* second variant on
VariantHead(word, i) ==
    IF i = 1 THEN word ELSE word \o << "(" >> \o str_int(i) \o << ")" >>

\* line is the dictionary line of the i-th variant: the head token, the
\* phonemes, one space between neighbours, a line end
IsVariantLine(line, word, i, phonemes) ==
    /\ line # << >>
    /\ line[Len(line)] = NL
    /\ re_split(Chomp(line)) = << VariantHead(word, i) >> \o phonemes
    /\ Len(Chomp(line)) = Len(VariantHead(word, i)) + SeparatedLength(phonemes)
    /\ \A j \in 1..Len(Chomp(line)) : Chomp(line)[j] # TAB

\* C17: a step of the resolver for a word with k+1 variants appends exactly
\* k+1 lines to the dictionary, in the order of the variants, the first under
\* the bare word and the (i+1)-th under word(i+1), the phonemes separated by
\* single spaces; a step for a word without a variant appends nothing and
\* puts the word into the Missing-Word Set.
C17_ResolverLines ==
    [][(pc = "resolve" /\ todo' # todo) =>
        LET word == CHOOSE w \in todo : w \notin todo'
            n == Len(dict_file)
        IN IF word \in DOMAIN pronunciations /\ pronunciations[word] # << >>
           THEN /\ Len(dict_file') = n + Len(pronunciations[word])
                /\ SubSeq(dict_file', 1, n) = dict_file
                /\ \A i \in 1..Len(pronunciations[word]) :
                     IsVariantLine(dict_file'[n + i], word, i, pronunciations[word][i])
                /\ missing_words' = missing_words
           ELSE /\ dict_file' = dict_file
                /\ missing_words' = missing_words \cup {word}]_vars

C17_Witness ==
    /\ pc = "resolve"
    /\ a \in DOMAIN pronunciations
    /\ Len(pronunciations[a]) = 2
    /\ dict_file = << a \o << SP >> \o P \o << NL >>,
                      a \o << "(", "2", ")", SP >> \o P \o << SP >> \o Q \o << NL >> >>

\* C18: each external tool is called at most once in a run; a call of
\* estimate-ngram either succeeds or ends the run FAILED at ESTIMATING with
\* the tool's error, a call of phonetisaurus-apply either succeeds or ends
\* the run FAILED at FALLBACK with the tool's error; FAILED has no successor,
\* and a run failed at ESTIMATING has run nothing of the later stages.
C18_NoRetry ==
    /\ [](estimator_calls <= 1 /\ g2p_calls <= 1)
    /\ [][/\ estimator_calls' # estimator_calls =>
               \/ pc' = "extract" /\ error' = "none"
               \/ pc' = "FAILED" /\ error' = "CalledProcessError" /\ failed_at' = "estimate"
          /\ g2p_calls' # g2p_calls =>
               \/ pc' = "guess" /\ error' = "none"
               \/ pc' = "FAILED" /\ error' = "CalledProcessError" /\ failed_at' = "g2p"
          /\ pc # "FAILED"]_vars
    /\ []((pc = "FAILED" /\ failed_at = "estimate") =>
            /\ vocabulary = {} /\ dict_file = << >> /\ g2p_calls = 0
            /\ dictionary_path = OldDictionary
            /\ language_model_path = OldLanguageModel)
    /\ []((pc = "FAILED" /\ failed_at = "g2p") =>
            /\ g2p_lines = << >>
            /\ Len(dict_file) = ResolverLineCount(vocabulary \ Unresolved)
            /\ dictionary_path = OldDictionary
            /\ language_model_path = OldLanguageModel)

C18_Witness ==
    /\ pc = "FAILED"
    /\ failed_at = "g2p"
    /\ error = "CalledProcessError"
    /\ estimator_calls = 1
    /\ g2p_calls = 1
    /\ dict_file # << >>


\* the words of an n-gram as the count file is to hold them
CountWords(ngram) ==
    [j \in 1..Len(ngram) |->
        IF dictionary_word_transform = "upper" THEN upper(ngram[j]) ELSE ngram[j]]

\* C20: the count file has one line per (n-gram, count) pair; a line is the
\* transformed words separated by single spaces, one tab, the count in
\* decimal and a line end, with nothing between the tab and the count.
C20_CountLineFormat ==
    pc = "estimate" =>
        /\ Len(count_file) = Len(intent_counts)
        /\ \A i \in 1..Len(intent_counts) :
             count_file[i] =
                 join(CountWords(intent_counts[i][1])) \o << TAB >>
                     \o str_int(intent_counts[i][2]) \o << NL >>


\* C14: a line on which the tokenizer raises is skipped with a warning that
\* carries its 1-based number: the map is as it was before the line,
\* whatever the position of the line, and the lines after it are read.
C14_FaultyLineSkipped ==
    /\ [][(rd_i' = rd_i + 1 /\ rd_kind' = "bytes" /\ strip(rd_line') # << >>) =>
            /\ word_dict' = word_dict
            /\ rd_warning' = rd_i']_vars
    /\ [][(rd_i' = rd_i + 1 /\ rd_kind' = "str") =>
            /\ word_dict' = read_dict_line(word_dict, rd_line')
            /\ rd_warning' = rd_warning]_vars
    /\ [](rd_i < MaxDictLines => ENABLED ReadDictLine)

\* a valid line, a faulty line, a valid line: two entries
C14_Witness ==
    /\ rd_i = 3
    /\ rd_warning = 2
    /\ rd_kind = "str"
    /\ word_dict = [w \in {a, b} |-> IF w = a THEN << << P >> >> ELSE << << P, Q >> >>]

====
